---- MODULE Spec2Model ----
(***************************************************************************)
(* A model of the MIDI meta-event decoder of midi-meta-viewer              *)
(* (src/src/main.ts): readVarLen and parseMidi, with the number semantics  *)
(* of the source language kept where they decide a result: a read of a     *)
(* Uint8Array outside its bounds yields `undefined`, `<<` and `|` work on   *)
(* signed 32-bit integers, and slice clamps its bounds.                    *)
(*                                                                         *)
(* Bytes are the integers 0..255 and a byte buffer is a sequence of them;  *)
(* the source indexes buffers from 0, so At(data, k) reads data[k + 1].    *)
(* A decoded text is the sequence of its code points.  The source's        *)
(* Japanese labels are written as ASCII strings here (the same source      *)
(* string always becomes the same model string):                           *)
(*   '曲名' "SongName", 'トラック名' "TrackName", '著作権' "Copyright",    *)
(*   'テキスト' "Text", '歌詞' "Lyrics", 'マーカー' "Marker",               *)
(*   'キューポイント' "CuePoint", '共通' common, '言語別' perLanguage.      *)
(*                                                                         *)
(* The page around the decoder is modelled too: the change handler of the  *)
(* file input with its reads in flight, renderMidiList, selectMidiFile     *)
(* and renderMetaView.  An element is modelled by what the handlers write  *)
(* to it and read back from it.                                            *)
(***************************************************************************)
EXTENDS Integers, Sequences, FiniteSets, TLC

VARIABLES
  data,           \* the bytes handed to parseMidi (or to readVarLen)
  twin,           \* the same file with one omitted status byte written out
  pc,             \* where the call stands
  offset,         \* parseMidi: the scan position
  trackCount,     \* parseMidi: the chunks finished so far
  trackMetaList,  \* parseMidi: the result being built
  i,              \* the cursor of the event loop
  end,            \* the end of the body of the chunk being walked
  metaList,       \* the records of the chunk being walked
  runningStatus,  \* the last status byte read in this chunk
  status,         \* the status of the last event handled
  metaType,       \* its meta type, undefined when it was no meta event
  len,            \* its length, undefined when it has none
  arg,            \* readVarLen alone: the value encoded and its offset
  varLen,         \* readVarLen alone: the {value, next} returned
  files,          \* fileInput.files: the files chosen last
  pending,        \* the change handlers waiting at `await Promise.all`
  fileTrackMetaLists, \* the module variable of that name
  midiList,       \* the buttons of #midi-list
  active,         \* the position of the button with class active, 0 if none
  metaView,       \* the content of #meta-view
  songNameDiv,    \* the text of .song-name
  title,          \* what document.title holds after `initialTitle - `
  fileInputText   \* the text of .file-input-text

\* The locals of parseMidi and of readVarLen.
parser == <<data, twin, pc, offset, trackCount, trackMetaList, i, end,
            metaList, runningStatus, status, metaType, len, arg, varLen>>

\* The page and the module variable fileTrackMetaLists.
page == <<files, pending, fileTrackMetaLists, midiList, active, metaView,
          songNameDiv, title, fileInputText>>

vars == <<parser, page>>

\* The page as it is loaded: no file chosen, nothing listed, nothing shown.
PageLoaded ==
  /\ files = <<>>
  /\ pending = <<>>
  /\ fileTrackMetaLists = <<>>
  /\ midiList = <<>>
  /\ active = 0
  /\ metaView = [text |-> "", blocks |-> <<>>]
  /\ songNameDiv = <<>>
  /\ title = <<>>
  /\ fileInputText = "initialFileInputText"

\* ------------------------------------------------------------------------
\* Numbers of the source language

\* The value of a read outside the buffer, and of a local not in scope.
undefined == -1

\* data[k]: the byte at 0-based index k, undefined outside the buffer.
At(d, k) == IF k >= 0 /\ k < Len(d) THEN d[k + 1] ELSE undefined

\* b & 0xff in the place of b & 0x7f.
AndFF(b) == IF b = undefined THEN 0 ELSE b

\* b & 0x7f, with undefined converted to 0 as the bit operators do.
And7f(b) == IF b = undefined THEN 0 ELSE b % 128

\* (b & 0x80) === 0
NoContinuation(b) == b = undefined \/ b < 128

\* v << 7 on a signed 32-bit integer: the low 25 bits of v move up by 7 and
\* bit 31 of the result is its sign.
Shl7(v) ==
  LET low == v % 33554432
  IN  IF low >= 16777216 THEN (low - 33554432) * 128 ELSE low * 128

\* One byte as an operand of a bit operator.
ToInt(b) == IF b = undefined THEN 0 ELSE b

\* (b4 << 24) | (b5 << 16) | (b6 << 8) | b7 as a signed 32-bit integer.
Int32BE(b4, b5, b6, b7) ==
  LET top == IF ToInt(b4) >= 128 THEN ToInt(b4) - 256 ELSE ToInt(b4)
  IN  top * 16777216 + ToInt(b5) * 65536 + ToInt(b6) * 256 + ToInt(b7)

\* data.slice(from, to): both bounds clamp to the buffer, a negative bound
\* counts from the end.
SliceIndex(d, k) ==
  IF k < 0 THEN (IF Len(d) + k < 0 THEN 0 ELSE Len(d) + k)
  ELSE IF k > Len(d) THEN Len(d) ELSE k

Slice(d, from, to) ==
  LET a == SliceIndex(d, from)
      b == SliceIndex(d, to)
  IN  IF a >= b THEN <<>> ELSE SubSeq(d, a + 1, b)

\* ------------------------------------------------------------------------
\* readVarLen

RECURSIVE readVarLenFrom(_, _, _)
readVarLenFrom(d, k, v) ==
  LET b  == At(d, k)
      v2 == Shl7(v) + And7f(b)
  IN  IF NoContinuation(b) THEN [value |-> v2, next |-> k + 1]
      ELSE readVarLenFrom(d, k + 1, v2)

readVarLen(d, off) == readVarLenFrom(d, off, 0)

\* ------------------------------------------------------------------------
\* Texts

\* new TextDecoder('Shift-JIS').decode(bytes): an ASCII byte and 0x80 decode
\* to the code point of the same value, 0xA1..0xDF to the halfwidth katakana
\* block (U+FF61 + byte - 0xA1), a lead byte (0x81..0x9F, 0xE0..0xFC) with a
\* trail byte to the two-byte character of that pair, and anything else to
\* U+FFFD.  The JIS X 0208 table is not spelled out: DoubleByte(lead, trail)
\* stands for the character of a pair, one distinct value per pair.
IsLead(b) == (b >= 129 /\ b <= 159) \/ (b >= 224 /\ b <= 252)

IsTrail(b) == (b >= 64 /\ b <= 126) \/ (b >= 128 /\ b <= 252)

DoubleByte(lead, trail) == 1114112 + lead * 256 + trail

RECURSIVE decodeShiftJIS(_)
decodeShiftJIS(bytes) ==
  IF bytes = <<>> THEN <<>>
  ELSE LET b == Head(bytes)
           rest == Tail(bytes)
       IN  IF b <= 128 THEN <<b>> \o decodeShiftJIS(rest)
           ELSE IF b >= 161 /\ b <= 223
             THEN <<65377 + (b - 161)>> \o decodeShiftJIS(rest)
           ELSE IF IsLead(b) /\ rest # <<>> /\ IsTrail(Head(rest))
             THEN <<DoubleByte(b, Head(rest))>> \o decodeShiftJIS(Tail(rest))
           ELSE IF IsLead(b) /\ rest # <<>> /\ Head(rest) >= 128
             THEN <<65533>> \o decodeShiftJIS(Tail(rest))
           ELSE <<65533>> \o decodeShiftJIS(rest)

\* text.slice(0, 4)
firstFourChars(text) == SubSeq(text, 1, IF Len(text) < 4 THEN Len(text) ELSE 4)

\* The literals 'XFhd' and 'XFln', and ':'.
XFhd == <<88, 70, 104, 100>>

XFln == <<88, 70, 108, 110>>

Colon == 58

\* text.split(':'): the pieces between the colons, at least one piece.
RECURSIVE SplitFrom(_, _)
SplitFrom(text, piece) ==
  IF text = <<>> THEN <<piece>>
  ELSE IF Head(text) = Colon THEN <<piece>> \o SplitFrom(Tail(text), <<>>)
  ELSE SplitFrom(Tail(text), Append(piece, Head(text)))

Split(text) == SplitFrom(text, <<>>)

\* ------------------------------------------------------------------------
\* The tables

\* META_EVENT_TYPES: the six text meta types and their names.
META_EVENT_TYPES ==
  (3 :> "SongName") @@ (2 :> "Copyright") @@ (1 :> "Text") @@
  (5 :> "Lyrics") @@ (6 :> "Marker") @@ (7 :> "CuePoint")

\* XF_INFO_TYPES: the labels of the fields of the two XF payloads, by the
\* 0-based position of the field in the split payload.
XF_INFO_TYPES ==
  [XFhd |-> <<"ID", "ReleaseDate", "ProductionArea", "Genre", "Beat",
              "MelodyInstrument", "VocalType", "Composer", "Lyricist",
              "Arranger", "Performer", "DataProducer", "Keyword">>,
   XFln |-> <<"ID", "Language", "SongName", "Composer", "Lyricist",
              "Arranger", "Performer", "DataProducer">>]

\* types[index], "" where the table has no entry (the source's undefined).
TypeAt(types, index) ==
  IF index >= 0 /\ index < Len(types) THEN types[index + 1] ELSE ""

\* ------------------------------------------------------------------------
\* The meta extractor (the body of `if (META_EVENT_TYPES[metaType])`)

\* The sequencer-specific type 0x7f taken for a text type too.
IsTextTypeOrSpecific(mt) == mt \in DOMAIN META_EVENT_TYPES \/ mt = 127

\* A recognized text meta type: META_EVENT_TYPES[metaType] is a name.
IsTextType(mt) == mt \in DOMAIN META_EVENT_TYPES

\* The name of the meta type whichever chunk it is in.
eventTypeNameOfTable(mt, tc) == META_EVENT_TYPES[mt]

\* The kind a plain text record gets: the name of its meta type, with
\* 'SongName' replaced by 'TrackName' once a chunk has been finished.
eventTypeName(mt, tc) ==
  IF tc > 0 /\ META_EVENT_TYPES[mt] = "SongName" THEN "TrackName"
  ELSE META_EVENT_TYPES[mt]

\* The category an XF payload goes to.
typeStringOf(prefix) == IF prefix = XFhd THEN "common" ELSE "perLanguage"

\* XF_INFO_TYPES[firstFourChars]
typesOf(prefix) == IF prefix = XFhd THEN XF_INFO_TYPES.XFhd ELSE XF_INFO_TYPES.XFln

\* The label one position earlier in the table.
xfLabelBefore(types, index) == TypeAt(types, index - 1)

\* The label paired with the field at position index of the split payload.
xfLabel(types, index) == TypeAt(types, index)

\* The loop over infoItems.entries(): the fields kept of one payload, from
\* position index on.
RECURSIVE xfItemsFrom(_, _, _)
xfItemsFrom(infoItems, types, index) ==
  IF index >= Len(infoItems) THEN <<>>
  ELSE LET item == infoItems[index + 1]
           kept == index > 0 /\ xfLabel(types, index) # "" /\ item # <<>>
       IN  (IF kept THEN <<[type |-> xfLabel(types, index), text |-> item]>>
            ELSE <<>>)
           \o xfItemsFrom(infoItems, types, index + 1)

\* xfInfo with the empty fields kept under their labels.
xfInfoKeepEmpty(text) ==
  LET prefix == firstFourChars(text)
      pieces == Split(text)
      types  == typesOf(prefix)
      last   == IF Len(pieces) < Len(types) THEN Len(pieces) ELSE Len(types)
      items  == [p \in 1..(last - 1) |->
                   [type |-> types[p + 1], text |-> pieces[p + 1]]]
  IN  IF prefix = XFhd THEN [common |-> items, perLanguage |-> <<>>]
      ELSE [common |-> <<>>, perLanguage |-> items]

\* xfInfo: the fields of one payload under its category, the other empty.
xfInfoOf(text) ==
  LET prefix == firstFourChars(text)
      items  == xfItemsFrom(Split(text), typesOf(prefix), 0)
  IN  IF prefix = XFhd THEN [common |-> items, perLanguage |-> <<>>]
      ELSE [common |-> <<>>, perLanguage |-> items]

\* Whether the payload is merged: the last record of the list is an XF one.
lastIsXF(ml) == Len(ml) > 0 /\ ml[Len(ml)].type = "XF"

\* A push whatever the last record is.
pushXF(ml, typeString, xfInfo) == Append(ml, [type |-> "XF", info |-> xfInfo])

\* The merge: into the last record when it is an XF record, else a push.
mergeXF(ml, typeString, xfInfo) ==
  IF lastIsXF(ml)
  THEN [ml EXCEPT ![Len(ml)].info[typeString] = @ \o xfInfo[typeString]]
  ELSE Append(ml, [type |-> "XF", info |-> xfInfo])

\* A payload is an XF payload when its text starts with 'XFhd' or 'XFln'.
IsXFText(text) == firstFourChars(text) = XFhd \/ firstFourChars(text) = XFln

\* The push of a text record without the test `if (text)`.
handleTextUnguarded(ml, mt, text, tc) ==
  IF IsXFText(text)
  THEN mergeXF(ml, typeStringOf(firstFourChars(text)), xfInfoOf(text))
  ELSE Append(ml, [type |-> eventTypeName(mt, tc), text |-> text])

\* The list after a recognized text meta event with this payload text.
handleText(ml, mt, text, tc) ==
  IF IsXFText(text)
  THEN mergeXF(ml, typeStringOf(firstFourChars(text)), xfInfoOf(text))
  ELSE IF text # <<>> THEN Append(ml, [type |-> eventTypeName(mt, tc), text |-> text])
  ELSE ml

\* The end-of-track test comparing the type with 0x02 in the place of 0x2f.
isEndOfTrackMistyped(mt, l) == mt = 2 /\ l = 0

\* if (metaType === 0x2f && len === 0) break
isEndOfTrack(mt, l) == mt = 47 /\ l = 0

\* ------------------------------------------------------------------------
\* One iteration of the event loop `while (i < end)`

\* Whether the byte after the delta time is a data byte (running status).
isRunning(st) == st # undefined /\ st < 128

\* The status of the event: the running status for a data byte, else the
\* byte read.
statusOf(first, rs) == IF isRunning(first) THEN rs ELSE first

\* The cursor after the status: a data byte is not consumed.
afterStatus(first, afterDelta) ==
  IF isRunning(first) THEN afterDelta ELSE afterDelta + 1

\* runningStatus never assigned in the loop.
keepRunningStatus(first, rs) == rs

\* runningStatus after the status byte: a status byte read replaces it.
nextRunningStatus(first, rs) == IF isRunning(first) THEN rs ELSE first

\* The number of data bytes of a channel event.
channelDataBytes(st) ==
  LET eventType == (st \div 16) * 16
  IN  IF eventType = 192 \/ eventType = 208 THEN 1 ELSE 2

\* The locals after one iteration started at cursor k: the cursor i, the
\* running status, the list, whether the loop was left by break, and the
\* status, meta type and length of the event (undefined when not read).
walkEvent(d, k, rs, ml, tc) ==
  LET afterDelta == readVarLen(d, k).next
      first      == At(d, afterDelta)
      st         == statusOf(first, rs)
      i1         == afterStatus(first, afterDelta)
      rs1        == nextRunningStatus(first, rs)
  IN  IF st = 255 THEN
        LET mt   == At(d, i1)
            vl   == readVarLen(d, i1 + 1)
            text == decodeShiftJIS(Slice(d, vl.next, vl.next + vl.value))
            ml1  == IF IsTextType(mt) THEN handleText(ml, mt, text, tc) ELSE ml
            brk  == isEndOfTrack(mt, vl.value)
        IN  [i |-> IF brk THEN vl.next ELSE vl.next + vl.value,
             runningStatus |-> rs1, metaList |-> ml1, brk |-> brk,
             status |-> st, metaType |-> mt, len |-> vl.value]
      ELSE IF st # undefined /\ st >= 128 /\ st <= 239 THEN
        [i |-> i1 + channelDataBytes(st),
         runningStatus |-> rs1, metaList |-> ml, brk |-> FALSE,
         status |-> st, metaType |-> undefined, len |-> undefined]
      ELSE IF st = 240 \/ st = 247 THEN
        LET vl == readVarLen(d, i1)
        IN  [i |-> vl.next + vl.value,
             runningStatus |-> rs1, metaList |-> ml, brk |-> FALSE,
             status |-> st, metaType |-> undefined, len |-> vl.value]
      ELSE
        [i |-> i1 + 1,
         runningStatus |-> rs1, metaList |-> ml, brk |-> FALSE,
         status |-> st, metaType |-> undefined, len |-> undefined]

\* ------------------------------------------------------------------------
\* The chunk scanner

\* isMidi with the fourth comparison left out.
isMidiFirstThree(d) == At(d, 0) = 77 /\ At(d, 1) = 84 /\ At(d, 2) = 104

\* const isMidi: the first four bytes are 'MThd'.
isMidi(d) == At(d, 0) = 77 /\ At(d, 1) = 84 /\ At(d, 2) = 104 /\ At(d, 3) = 100

\* The 4 bytes at off are 'MTrk' or 'XFIH'.
isChunkStart(d, off) ==
  \/ At(d, off) = 77 /\ At(d, off + 1) = 84 /\ At(d, off + 2) = 114 /\ At(d, off + 3) = 107
  \/ At(d, off) = 88 /\ At(d, off + 1) = 70 /\ At(d, off + 2) = 73 /\ At(d, off + 3) = 72

\* const chunkSize
chunkSizeAt(d, off) ==
  Int32BE(At(d, off + 4), At(d, off + 5), At(d, off + 6), At(d, off + 7))

\* const end = i + chunkSize, with i = offset + 8
chunkEnd(d, off) == off + 8 + chunkSizeAt(d, off)

\* The offset the scan starts from, after the 14 bytes of the header chunk.
HeaderSize == 14

\* ------------------------------------------------------------------------
\* The files parsed

\* The most events in the body of a chunk, and the most chunks in a file.
MaxEvents == 3

MaxChunks == 2

\* The most chunks parseMidi is followed through: a file whose scan never
\* ends is left after this many.
MaxTracks == 4

RECURSIVE Concat(_)
Concat(ss) == IF ss = <<>> THEN <<>> ELSE Head(ss) \o Concat(Tail(ss))

SeqsUpTo(S, n) == UNION {[1..k -> S] : k \in 0..n}

\* The four bytes of a signed 32-bit integer, high byte first.
Bytes4(n) ==
  LET m   == IF n < 0 THEN n + 2147483647 + 1 ELSE n
      top == IF n < 0 THEN 128 + m \div 16777216 ELSE m \div 16777216
  IN  <<top, (m \div 65536) % 256, (m \div 256) % 256, m % 256>>

Header == <<77, 84, 104, 100, 0, 0, 0, 6, 0, 1, 0, 1, 0, 96>>

MTrk == <<77, 84, 114, 107>>

XFIH == <<88, 70, 73, 72>>

Chunk(sig, declared, body) == sig \o Bytes4(declared) \o body

\* Events, each with delta time 0.
TextEvent(mt, payload) == <<0, 255, mt, Len(payload)>> \o payload

TextA == TextEvent(3, <<65>>)

TextKana == TextEvent(1, <<177>>)

TextEmpty == TextEvent(3, <<>>)

\* 'XFhd:a:b' and 'XFln:e:T'
XFhdEvent == TextEvent(1, XFhd \o <<58, 97, 58, 98>>)

XFlnEvent == TextEvent(1, XFln \o <<58, 101, 58, 84>>)

\* 'XFhd:ID1:1999/01/01' and 'XFln:en:Song Title'
XFhdExample ==
  TextEvent(1, XFhd \o <<58, 73, 68, 49, 58, 49, 57, 57, 57, 47, 48, 49, 47, 48, 49>>)

XFlnExample ==
  TextEvent(1, XFln \o <<58, 101, 110, 58, 83, 111, 110, 103, 32, 84, 105, 116, 108, 101>>)

Tempo == <<0, 255, 81, 3, 7, 161, 32>>

EndOfTrack == <<0, 255, 47, 0>>

\* A chunk header lying in the body of another chunk.
Nested == MTrk \o <<0, 0, 0, 0>>

NoteOn == <<0, 144, 60, 64>>

NoteRun == <<0, 60, 64>>

Prog == <<0, 192, 5>>

ProgRun == <<0, 5>>

SysEx == <<0, 240, 1, 247>>

Unknown == <<0, 241>>

\* A meta event of type 0x2f that declares one byte of payload.
EndOfTrackLong == <<0, 255, 47, 1, 0>>

\* A sequencer-specific meta event (type 0x7f) whose payload is 'XFhd:a:b'.
UnrecognizedXF == TextEvent(127, XFhd \o <<58, 97, 58, 98>>)

\* 'XFln::T': the field at position 1 is empty.
XFlnGaps == TextEvent(1, XFln \o <<58, 58, 84>>)

\* 'XFln:a:b:c:d:e:f:g:h': the field at position 8 is beyond the table.
XFlnLong ==
  TextEvent(1, XFln \o <<58, 97, 58, 98, 58, 99, 58, 100, 58, 101, 58, 102,
                         58, 103, 58, 104>>)

\* 'XFhd' and 'XFln:': a prefix with no field, and one with an empty field.
XFhdBare == TextEvent(1, XFhd)

XFlnBare == TextEvent(1, XFln \o <<58>>)

MetaLib == {TextA, TextKana, TextEmpty, XFhdEvent, XFlnEvent, EndOfTrack, Nested}

ChanLib == {NoteOn, NoteRun, Prog, ProgRun, SysEx, Unknown, TextA}

KindLib ==
  {TextEvent(t, <<65>>) : t \in DOMAIN META_EVENT_TYPES}
    \cup {XFhdEvent, XFlnEvent, Tempo, EndOfTrack \o Nested}

\* The events that are skipped or that leave out a part of their payload.
EdgeLib ==
  {Tempo, EndOfTrackLong, UnrecognizedXF, XFlnGaps, XFlnLong, XFhdBare,
   XFlnBare, TextA}

\* The event with its status byte written out.
ExplicitOf(e) == IF e = NoteRun THEN NoteOn ELSE IF e = ProgRun THEN Prog ELSE e

\* Event p of evs is a channel event without its status byte, right after an
\* event of the same status.
RECURSIVE Omitted(_, _)
Omitted(evs, p) ==
  /\ p > 1
  /\ evs[p] \in {NoteRun, ProgRun}
  /\ \/ evs[p - 1] = ExplicitOf(evs[p])
     \/ evs[p - 1] = evs[p] /\ Omitted(evs, p - 1)

\* A file of one chunk whose declared length is over bytes more than its body.
OneChunk(evs, over) ==
  Header \o Chunk(MTrk, Len(Concat(evs)) + over, Concat(evs))

\* A file of chunks with one body each, of the declared length.
ManyChunks(bodies) ==
  Header \o Concat([k \in 1..Len(bodies) |->
                      Chunk(IF k % 2 = 1 THEN MTrk ELSE XFIH,
                            Len(bodies[k]), bodies[k])])

Untwinned(S) == {[data |-> d, twin |-> d] : d \in S}

\* One chunk of up to MaxEvents events, its length declared as it is or as 3
\* bytes more (the file ends inside the declared body); with each omitted
\* status byte, the file that has it.
WalkFiles ==
  UNION {
    {[data |-> OneChunk(evs, over), twin |-> OneChunk(evs, over)]}
      \cup {[data |-> OneChunk(evs, over),
             twin |-> OneChunk([evs EXCEPT ![p] = ExplicitOf(@)], over)] :
              p \in {q \in 1..Len(evs) : Omitted(evs, q)}} :
    evs \in SeqsUpTo(MetaLib, MaxEvents) \cup SeqsUpTo(ChanLib, MaxEvents),
    over \in {0, 3}}

\* One chunk of up to MaxEvents of the events of EdgeLib, its length declared
\* as it is.
EdgeFiles ==
  Untwinned({OneChunk(evs, 0) : evs \in SeqsUpTo(EdgeLib, MaxEvents)})

\* One chunk whose declared length ends inside its last event, followed or
\* not by a second chunk.
ShortFiles ==
  Untwinned({Header \o Chunk(MTrk, Len(e) - under, e) \o tail :
               e \in {TextA, XFlnEvent, SysEx, TextA \o XFhdEvent},
               under \in {1, 3},
               tail \in {<<>>, Chunk(XFIH, Len(TextKana), TextKana)}})

\* Up to MaxChunks chunks of at most one event each.
ScanFiles ==
  Untwinned({ManyChunks(bodies) :
               bodies \in SeqsUpTo(KindLib \cup {<<>>}, MaxChunks)})

\* The two examples of a chunk body given for the XF merge and the decode.
ExampleFiles ==
  Untwinned({OneChunk(<<XFhdExample, XFlnExample>>, 0),
             OneChunk(<<TextEvent(3, <<65, 66, 67>>), EndOfTrack>>, 0),
             OneChunk(<<TextEvent(3, <<65, 66, 67>>), <<0>>>>, 0)})

\* Every file of one event cut short, down to the empty file.
CutFiles ==
  Untwinned(UNION {{SubSeq(OneChunk(<<e>>, 0), 1, n) :
                       n \in 0..Len(OneChunk(<<e>>, 0))} :
                    e \in {TextA, XFlnEvent, NoteOn, SysEx}})

\* A declared length with the top bit set.
NegativeFiles ==
  Untwinned({Header \o Chunk(MTrk, n, body) \o tail :
               n \in {-1, -8, -16, -30}, body \in {<<>>, TextA},
               tail \in {<<>>, Chunk(XFIH, 5, TextA)}})

\* A header whose signature is wrong in one byte.
BadHeaderFiles ==
  Untwinned({[OneChunk(<<e>>, 0) EXCEPT ![k] = b] :
               e \in {TextA, EndOfTrack}, k \in 1..4, b \in {0, 107}})

Files ==
  WalkFiles \cup ScanFiles \cup ExampleFiles \cup CutFiles
    \cup NegativeFiles \cup BadHeaderFiles \cup EdgeFiles \cup ShortFiles

\* ------------------------------------------------------------------------
\* parseMidi, one step at a time

Init ==
  /\ \E f \in Files : data = f.data /\ twin = f.twin
  /\ pc = "start"
  /\ offset = 0
  /\ trackCount = 0
  /\ trackMetaList = <<>>
  /\ i = 0
  /\ end = 0
  /\ metaList = <<>>
  /\ runningStatus = 0
  /\ status = undefined
  /\ metaType = undefined
  /\ len = undefined
  /\ arg = [value |-> 0, offset |-> 0]
  /\ varLen = [value |-> 0, next |-> 0]
  /\ PageLoaded

\* if (!isMidi) throw new Error(...)
NotMidiFile ==
  /\ pc = "start"
  /\ ~isMidi(data)
  /\ pc' = "NotMidiFile"
  /\ UNCHANGED <<data, twin, offset, trackCount, trackMetaList, i, end,
                 metaList, runningStatus, status, metaType, len, arg, varLen>>
  /\ UNCHANGED page

\* trackMetaList = [], offset = 14, trackCount = 0
SkipHeader ==
  /\ pc = "start"
  /\ isMidi(data)
  /\ pc' = "scan"
  /\ trackMetaList' = <<>>
  /\ offset' = HeaderSize
  /\ trackCount' = 0
  /\ UNCHANGED <<data, twin, i, end, metaList, runningStatus, status,
                 metaType, len, arg, varLen>>
  /\ UNCHANGED page

\* No signature at offset: offset++; continue
ScanByte ==
  /\ pc = "scan"
  /\ offset < Len(data)
  /\ ~isChunkStart(data, offset)
  /\ offset' = offset + 1
  /\ UNCHANGED <<data, twin, pc, trackCount, trackMetaList, i, end, metaList,
                 runningStatus, status, metaType, len, arg, varLen>>
  /\ UNCHANGED page

\* A signature at offset: the locals of the chunk are set up.
EnterChunk ==
  /\ pc = "scan"
  /\ offset < Len(data)
  /\ isChunkStart(data, offset)
  /\ trackCount < MaxTracks
  /\ i' = offset + 8
  /\ end' = chunkEnd(data, offset)
  /\ metaList' = <<>>
  /\ runningStatus' = 0
  /\ pc' = "walk"
  /\ UNCHANGED <<data, twin, offset, trackCount, trackMetaList, status,
                 metaType, len, arg, varLen>>
  /\ UNCHANGED page

\* One iteration of while (i < end)
WalkEvent ==
  /\ pc = "walk"
  /\ i < end
  /\ LET r == walkEvent(data, i, runningStatus, metaList, trackCount)
     IN  /\ i' = r.i
         /\ runningStatus' = r.runningStatus
         /\ metaList' = r.metaList
         /\ status' = r.status
         /\ metaType' = r.metaType
         /\ len' = r.len
         /\ pc' = IF r.brk THEN "break" ELSE "walk"
  /\ UNCHANGED <<data, twin, offset, trackCount, trackMetaList, end, arg, varLen>>
  /\ UNCHANGED page

\* The push left out for a chunk without records.
pushTrackIfAny(tml, tc, ml) ==
  IF ml = <<>> THEN tml ELSE Append(tml, [track |-> tc + 1, meta |-> ml])

\* trackMetaList.push({ track: trackCount + 1, meta: metaList })
pushTrack(tml, tc, ml) == Append(tml, [track |-> tc + 1, meta |-> ml])

\* After the event loop: the track is pushed and the scan goes on at end.
LeaveChunk ==
  /\ \/ pc = "walk" /\ i >= end
     \/ pc = "break"
  /\ trackMetaList' = pushTrack(trackMetaList, trackCount, metaList)
  /\ trackCount' = trackCount + 1
  /\ offset' = end
  /\ pc' = "scan"
  /\ UNCHANGED <<data, twin, i, end, metaList, runningStatus, status,
                 metaType, len, arg, varLen>>
  /\ UNCHANGED page

\* offset >= data.length: return trackMetaList
Return ==
  /\ pc = "scan"
  /\ offset >= Len(data)
  /\ pc' = "done"
  /\ UNCHANGED <<data, twin, offset, trackCount, trackMetaList, i, end,
                 metaList, runningStatus, status, metaType, len, arg, varLen>>
  /\ UNCHANGED page

Next ==
  \/ NotMidiFile
  \/ SkipHeader
  \/ ScanByte
  \/ EnterChunk
  \/ WalkEvent
  \/ LeaveChunk
  \/ Return

Spec == Init /\ [][Next]_vars

\* ------------------------------------------------------------------------
\* parseMidi as a function of the file, for comparing two files

\* The event loop from cursor k to e: the list when it is left, and the
\* cursor at the start of each iteration with the status of its event.
RECURSIVE walkChunk(_, _, _, _, _, _)
walkChunk(d, k, e, rs, ml, tc) ==
  IF k >= e THEN [metaList |-> ml, starts |-> <<>>, statuses |-> <<>>]
  ELSE LET r == walkEvent(d, k, rs, ml, tc)
       IN  IF r.brk
           THEN [metaList |-> r.metaList, starts |-> <<k>>, statuses |-> <<r.status>>]
           ELSE LET rest == walkChunk(d, r.i, e, r.runningStatus, r.metaList, tc)
                IN  [metaList |-> rest.metaList,
                     starts |-> <<k>> \o rest.starts,
                     statuses |-> <<r.status>> \o rest.statuses]

\* The scan loop from off, followed through at most MaxTracks chunks.
RECURSIVE scanChunks(_, _, _, _)
scanChunks(d, off, tc, tml) ==
  IF off >= Len(d) THEN tml
  ELSE IF ~isChunkStart(d, off) THEN scanChunks(d, off + 1, tc, tml)
  ELSE IF tc >= MaxTracks THEN tml
  ELSE LET w == walkChunk(d, off + 8, chunkEnd(d, off), 0, <<>>, tc)
       IN  scanChunks(d, chunkEnd(d, off), tc + 1,
                      pushTrack(tml, tc, w.metaList))

\* The track list parseMidi returns for a file that starts with 'MThd'.
parseMidi(d) == scanChunks(d, HeaderSize, 0, <<>>)

\* The cursors at which the iterations over the first chunk start, for a
\* file whose first chunk follows the header.
eventStarts(d) ==
  walkChunk(d, HeaderSize + 8, chunkEnd(d, HeaderSize), 0, <<>>, 0).starts

\* The status of the event of each of these iterations.
eventStatuses(d) ==
  walkChunk(d, HeaderSize + 8, chunkEnd(d, HeaderSize), 0, <<>>, 0).statuses

\* ------------------------------------------------------------------------
\* C1

StartsWithMThd(d) == Len(d) >= 4 /\ SubSeq(d, 1, 4) = <<77, 84, 104, 100>>

\* C1: a file whose first 4 bytes are not 'MThd' (the empty file and files
\* shorter than 4 bytes included) can only fail with NotMidiFile, and builds
\* no track list; a file that starts with 'MThd' never fails with it.
C1_HeaderRejection ==
  /\ ~StartsWithMThd(data) =>
       /\ pc \in {"start", "NotMidiFile"}
       /\ pc = "start" => ENABLED NotMidiFile /\ ~ENABLED SkipHeader
       /\ trackMetaList = <<>>
  /\ StartsWithMThd(data) => pc # "NotMidiFile"

\* A file rejected for its fourth byte alone.
C1_Witness ==
  /\ pc = "NotMidiFile"
  /\ Len(data) >= 4
  /\ SubSeq(data, 1, 3) = <<77, 84, 104>>

\* ------------------------------------------------------------------------
\* C2

\* C2: a step of the decode that reads or skips past the end of the buffer
\* (the event loop leaving its cursor beyond the buffer, or the chunk length
\* read beyond it) aborts the decode with a failure, and no track list is
\* returned.
C2_TruncatedAborts ==
  [][(\/ pc = "walk" /\ i < end /\ i' > Len(data)
      \/ pc = "scan" /\ pc' = "walk" /\ offset + 8 > Len(data))
     => pc' \notin {"scan", "walk", "break", "done"}]_vars

\* ------------------------------------------------------------------------
\* C3

\* C3: every iteration of the scan loop leaves offset greater than it was,
\* and every iteration of the event loop leaves the cursor greater than it
\* was.
C3_ScanAdvances ==
  [][/\ (pc = "scan" /\ pc' = "scan") => offset' > offset
     /\ (pc \in {"walk", "break"} /\ pc' = "scan") => offset' > offset
     /\ (pc = "walk" /\ pc' \in {"walk", "break"}) => i' > i]_vars

\* ------------------------------------------------------------------------
\* readVarLen alone, on the encodings of values

\* The variable-length quantity of v: 7 bits a byte, high bits first, the
\* continuation bit on every byte but the last.
RECURSIVE EncodeHigh(_)
EncodeHigh(u) ==
  IF u < 128 THEN <<128 + u>> ELSE EncodeHigh(u \div 128) \o <<128 + (u % 128)>>

EncodeVLQ(v) == IF v < 128 THEN <<v>> ELSE EncodeHigh(v \div 128) \o <<v % 128>>

RECURSIVE GroupsValue(_)
GroupsValue(g) ==
  IF g = <<>> THEN 0 ELSE GroupsValue(SubSeq(g, 1, Len(g) - 1)) * 128 + g[Len(g)]

\* Values of 0..0x0FFFFFFF: those of up to four 7-bit groups, each group
\* all zeros, one, the top bit alone, or all ones.
Values == {GroupsValue(g) : g \in UNION {[1..n -> {0, 1, 64, 127}] : n \in 1..4}}

\* The bytes before the encoding, by the offset it is put at, and after it.
Before == {<<>>, <<129>>, <<0, 255>>}

After == {<<>>, <<0>>, <<255>>}

InitVarLen ==
  /\ \E v \in Values, b \in Before, a \in After :
       /\ data = b \o EncodeVLQ(v) \o a
       /\ arg = [value |-> v, offset |-> Len(b)]
  /\ twin = data
  /\ pc = "readVarLen"
  /\ offset = 0
  /\ trackCount = 0
  /\ trackMetaList = <<>>
  /\ i = 0
  /\ end = 0
  /\ metaList = <<>>
  /\ runningStatus = 0
  /\ status = undefined
  /\ metaType = undefined
  /\ len = undefined
  /\ varLen = [value |-> 0, next |-> 0]
  /\ PageLoaded

\* return { value, next: i }
ReadVarLen ==
  /\ pc = "readVarLen"
  /\ varLen' = readVarLen(data, arg.offset)
  /\ pc' = "returned"
  /\ UNCHANGED <<data, twin, offset, trackCount, trackMetaList, i, end,
                 metaList, runningStatus, status, metaType, len, arg>>
  /\ UNCHANGED page

NextVarLen == ReadVarLen

SpecVarLen == InitVarLen /\ [][NextVarLen]_vars

\* C4: readVarLen at the offset of the encoding of a value of 0..0x0FFFFFFF
\* returns that value, and as next the offset just after the encoding.
C4_VarLenRoundTrip ==
  pc = "returned" =>
    /\ varLen.value = arg.value
    /\ varLen.next = arg.offset + Len(EncodeVLQ(arg.value))

\* The largest value, of four bytes, read at an offset other than 0 with a
\* byte after it.
C4_Witness ==
  /\ pc = "returned"
  /\ arg.value = 268435455
  /\ arg.offset > 0
  /\ Len(EncodeVLQ(arg.value)) = 4
  /\ Len(data) > varLen.next

\* ------------------------------------------------------------------------
\* C5

\* The index of the first byte of the chunk body at which two files differ:
\* the status byte written in twin and left out of data.
RECURSIVE FirstDifference(_, _, _)
FirstDifference(a, b, k) ==
  IF At(a, k) # At(b, k) THEN k ELSE FirstDifference(a, b, k + 1)

\* The event loop over the file with the status byte written reaches the
\* event of that byte as its n-th event (n > 1), straight after an event of
\* the same status.
FollowsSameStatus(long, statuses, written, n) ==
  /\ n > 1
  /\ n <= Len(long)
  /\ long[n] = written - 1
  /\ statuses[n] = At(twin, written)
  /\ statuses[n - 1] = At(twin, written)

\* C5: a file in which a channel event that follows an event of the same
\* status leaves its status byte out decodes to the same track list as the
\* file that has the byte (the chunk one byte longer), and the event loop
\* starts its iterations at the same events: the same cursors up to the
\* byte, one less after it.
C5_RunningStatus ==
  (pc = "done" /\ twin # data) =>
    LET written == FirstDifference(data, twin, HeaderSize + 8)
        short   == eventStarts(data)
        long    == eventStarts(twin)
    IN  (\E n \in 1..Len(long) :
           FollowsSameStatus(long, eventStatuses(twin), written, n)) =>
          /\ trackMetaList = parseMidi(twin)
          /\ Len(short) = Len(long)
          /\ \A n \in 1..Len(long) :
               short[n] = IF long[n] > written THEN long[n] - 1 ELSE long[n]

\* A note-on without its status byte as the second event, a text event after
\* it that is recorded, and the file decoded.
C5_Witness ==
  /\ pc = "done"
  /\ twin # data
  /\ FollowsSameStatus(eventStarts(twin), eventStatuses(twin),
                       FirstDifference(data, twin, HeaderSize + 8), 2)
  /\ Len(trackMetaList) = 1
  /\ Len(trackMetaList[1].meta) = 1
  /\ Len(eventStarts(data)) = 3
  /\ eventStarts(data)[3] = eventStarts(twin)[3] - 1

\* ------------------------------------------------------------------------
\* C6

\* C6: an iteration of the event loop that handles a meta event of type
\* 0x2F and length 0 leaves the loop and adds no record; the track pushed
\* then holds the records gathered up to that event, the scan goes on at the
\* end of the body, and a chunk is only ever entered at or after the end of
\* the body of the chunk before it, so no byte between the event and that end
\* is walked or taken for a signature.
C6_EndOfTrackStops ==
  [][/\ (pc = "walk" /\ i < end /\ status' = 255 /\ metaType' = 47 /\ len' = 0) =>
          /\ pc' = "break"
          /\ metaList' = metaList
     /\ pc = "break" =>
          /\ pc' = "scan"
          /\ offset' = end
          /\ trackMetaList' =
               Append(trackMetaList, [track |-> trackCount + 1, meta |-> metaList])
     /\ (pc = "scan" /\ pc' = "walk") => offset >= end]_vars

\* The loop left at an end-of-track event before the end of the body, a
\* record gathered before it, and a chunk signature right after it.
C6_Witness ==
  /\ pc = "break"
  /\ i < end
  /\ end <= Len(data)
  /\ isChunkStart(data, i)
  /\ Len(metaList) = 1

\* ------------------------------------------------------------------------
\* C7

\* The payload bytes start with the ASCII bytes of 'XFhd' or of 'XFln'.
StartsWithXF(bytes) == Len(bytes) >= 4 /\ SubSeq(bytes, 1, 4) \in {XFhd, XFln}

\* The texts of a list of XF fields.
TextsOf(items) == [k \in 1..Len(items) |-> items[k].text]

\* The file whose chunk holds 'XFhd:ID1:1999/01/01' and then
\* 'XFln:en:Song Title', and the one with 'XFhd:a:b' and then 'XFln:e:T'.
XFExampleFile == OneChunk(<<XFhdExample, XFlnExample>>, 0)

XFShortFile == OneChunk(<<XFhdEvent, XFlnEvent>>, 0)

\* C7: an iteration of the event loop that handles a text meta event whose
\* payload starts with 'XFhd' or 'XFln' while the last record of the chunk
\* is an XF record leaves the list as long as it was; and a chunk of an XFhd
\* payload followed by an XFln payload is decoded to one record, an XF
\* record, with the fields of the first under common and those of the second
\* under perLanguage.
C7_XFMerge ==
  [][/\ (/\ pc = "walk" /\ i < end
         /\ lastIsXF(metaList)
         /\ status' = 255 /\ metaType' \in {1, 2, 3, 5, 6, 7}
         /\ StartsWithXF(Slice(data, i' - len', i')))
          => Len(metaList') = Len(metaList)
     /\ (pc' = "done" /\ data = XFExampleFile) =>
          /\ Len(trackMetaList') = 1
          /\ Len(trackMetaList'[1].meta) = 1
          /\ trackMetaList'[1].meta[1].type = "XF"
          /\ TextsOf(trackMetaList'[1].meta[1].info.common)
               = <<<<73, 68, 49>>, <<49, 57, 57, 57, 47, 48, 49, 47, 48, 49>>>>
          /\ TextsOf(trackMetaList'[1].meta[1].info.perLanguage)
               = <<<<101, 110>>, <<83, 111, 110, 103, 32, 84, 105, 116, 108, 101>>>>
     /\ (pc' = "done" /\ data = XFShortFile) =>
          /\ Len(trackMetaList') = 1
          /\ Len(trackMetaList'[1].meta) = 1
          /\ trackMetaList'[1].meta[1].type = "XF"
          /\ TextsOf(trackMetaList'[1].meta[1].info.common) = <<<<97>>, <<98>>>>
          /\ TextsOf(trackMetaList'[1].meta[1].info.perLanguage) = <<<<101>>, <<84>>>>
    ]_vars

\* The example decoded: the XFln payload was handled with an XF record last.
C7_Witness ==
  /\ pc = "done"
  /\ data = XFExampleFile
  /\ lastIsXF(trackMetaList[1].meta)

\* ------------------------------------------------------------------------
\* C8

\* C8: the list of the chunk being walked never holds more than one XF
\* record.
C8_AtMostOneXF ==
  Cardinality({k \in 1..Len(metaList) : metaList[k].type = "XF"}) <= 1

\* ------------------------------------------------------------------------
\* C9

\* C9 as claimed: of 'XFhd:ID1:1999/01/01' the field 'ID1' is recorded under
\* common with the first label of the XFhd table, 'ID', and the first field
\* of 'XFln:en:Song Title' with the first label of the XFln table.
C9_FirstFieldFirstLabel ==
  (pc = "done" /\ data = XFExampleFile) =>
    /\ trackMetaList[1].meta[1].info.common[1] = [type |-> "ID", text |-> <<73, 68, 49>>]
    /\ trackMetaList[1].meta[1].info.perLanguage[1]
         = [type |-> "ID", text |-> <<101, 110>>]

\* The XF records of the list of the chunk being walked.
XFRecords == {metaList[k] : k \in {n \in 1..Len(metaList) : metaList[n].type = "XF"}}

\* C9 amended: a field is paired with the label at its position in the split
\* payload, the prefix being position 0.  Of 'XFhd:ID1:1999/01/01' the field
\* 'ID1' gets the second label of the XFhd table (release date) and
\* '1999/01/01' the third (production area); of 'XFln:en:Song Title' the
\* field 'en' gets the second label of the XFln table (language) and
\* 'Song Title' the third (song name).  The first label of a table, 'ID', is
\* the label of the prefix and is given to no field.
C9_FieldLabels ==
  /\ \A r \in XFRecords :
       /\ \A k \in 1..Len(r.info.common) : r.info.common[k].type # "ID"
       /\ \A k \in 1..Len(r.info.perLanguage) : r.info.perLanguage[k].type # "ID"
  /\ (pc = "done" /\ data = XFExampleFile) =>
       /\ trackMetaList[1].meta[1].info.common
            = <<[type |-> "ReleaseDate", text |-> <<73, 68, 49>>],
                [type |-> "ProductionArea",
                 text |-> <<49, 57, 57, 57, 47, 48, 49, 47, 48, 49>>]>>
       /\ trackMetaList[1].meta[1].info.perLanguage
            = <<[type |-> "Language", text |-> <<101, 110>>],
                [type |-> "SongName",
                 text |-> <<83, 111, 110, 103, 32, 84, 105, 116, 108, 101>>]>>
  /\ (pc = "done" /\ data = XFShortFile) =>
       /\ trackMetaList[1].meta[1].info.common
            = <<[type |-> "ReleaseDate", text |-> <<97>>],
                [type |-> "ProductionArea", text |-> <<98>>]>>
       /\ trackMetaList[1].meta[1].info.perLanguage
            = <<[type |-> "Language", text |-> <<101>>],
                [type |-> "SongName", text |-> <<84>>]>>

\* The example decoded, with its two fields under each category.
C9_Witness ==
  /\ pc = "done"
  /\ data = XFExampleFile
  /\ Len(trackMetaList[1].meta[1].info.common) = 2
  /\ Len(trackMetaList[1].meta[1].info.perLanguage) = 2

\* ------------------------------------------------------------------------
\* C10

\* The record an iteration of the event loop appended, when it appended a
\* plain text record.
AppendedText(before, after) ==
  /\ Len(after) = Len(before) + 1
  /\ after[Len(after)].type # "XF"

\* C10: a text meta event of type 0x03 whose payload is not empty and is no
\* XF payload is recorded, as 'SongName' in the chunk found first and as
\* 'TrackName' in every later chunk; a record of one of the other five text
\* types has the name of its type whichever chunk it is in.
C10_TrackNaming ==
  [][(pc = "walk" /\ i < end) =>
       /\ (/\ status' = 255 /\ metaType' = 3
           /\ Slice(data, i' - len', i') # <<>>
           /\ ~StartsWithXF(Slice(data, i' - len', i')))
            => AppendedText(metaList, metaList')
       /\ AppendedText(metaList, metaList') =>
            metaList'[Len(metaList')].type =
              CASE metaType' = 3 -> IF trackCount = 0 THEN "SongName" ELSE "TrackName"
                [] metaType' = 1 -> "Text"
                [] metaType' = 2 -> "Copyright"
                [] metaType' = 5 -> "Lyrics"
                [] metaType' = 6 -> "Marker"
                [] metaType' = 7 -> "CuePoint"]_vars

\* A 0x03 event recorded as 'TrackName' in the second chunk, after one
\* recorded as 'SongName' in the first.
C10_Witness ==
  /\ pc = "walk"
  /\ trackCount = 1
  /\ Len(metaList) = 1
  /\ metaList[1].type = "TrackName"
  /\ metaType = 3
  /\ Len(trackMetaList[1].meta) = 1
  /\ trackMetaList[1].meta[1].type = "SongName"

\* ------------------------------------------------------------------------
\* The page: escaping, the list of files, the view of one file
\*
\* Messages and labels of the page, as ASCII strings:
\*   'MIDIファイルではありません。' "NotMidiFile",
\*   'MIDIファイルの解析に失敗しました。' "ParseFailed",
\*   'メタ情報が見つかりませんでした。' "NoMetaFound",
\*   'XF項目（共通）' "XF(common)", 'XF項目（言語別）' "XF(perLanguage)",
\*   'N個のファイル' "N files".

\* The replacement htmlspecialchars makes for one character.
Entity(c) ==
  IF c = 38 THEN <<38, 97, 109, 112, 59>>
  ELSE IF c = 39 THEN <<38, 35, 120, 50, 55, 59>>
  ELSE IF c = 96 THEN <<38, 35, 120, 54, 48, 59>>
  ELSE IF c = 34 THEN <<38, 113, 117, 111, 116, 59>>
  ELSE IF c = 60 THEN <<38, 108, 116, 59>>
  ELSE IF c = 62 THEN <<38, 103, 116, 59>>
  ELSE <<c>>

\* The characters & ' ` " < > of the pattern /[&'`"<>]/g.
Escaped == {38, 39, 96, 34, 60, 62}

\* htmlspecialchars(unsafeText)
htmlspecialchars(unsafeText) ==
  Concat([k \in 1..Len(unsafeText) |-> Entity(unsafeText[k])])

StartsWith(s, p) == Len(s) >= Len(p) /\ SubSeq(s, 1, Len(p)) = p

\* What button.value and button.dataset.songName give back for an attribute
\* written into innerHTML: the six entities stand for their characters.
RECURSIVE attributeValue(_)
attributeValue(html) ==
  IF html = <<>> THEN <<>>
  ELSE IF \E c \in Escaped : StartsWith(html, Entity(c))
  THEN LET c == CHOOSE e \in Escaped : StartsWith(html, Entity(e))
       IN  <<c>> \o attributeValue(SubSeq(html, Len(Entity(c)) + 1, Len(html)))
  ELSE <<Head(html)>> \o attributeValue(Tail(html))

\* a.localeCompare(b) < 0, for names of '&' and lower-case letters, which
\* collate in the order of their codes.
RECURSIVE localeBefore(_, _)
localeBefore(a, b) ==
  IF b = <<>> THEN FALSE
  ELSE IF a = <<>> THEN TRUE
  ELSE IF Head(a) # Head(b) THEN Head(a) < Head(b)
  ELSE localeBefore(Tail(a), Tail(b))

RECURSIVE insertByName(_, _)
insertByName(sorted, file) ==
  IF sorted = <<>> THEN <<file>>
  ELSE IF localeBefore(file.name, Head(sorted).name) THEN <<file>> \o sorted
  ELSE <<Head(sorted)>> \o insertByName(Tail(sorted), file)

\* [...files].sort((a, b) => a.name.localeCompare(b.name)): a stable sort.
RECURSIVE sortByName(_)
sortByName(fs) ==
  IF fs = <<>> THEN <<>>
  ELSE insertByName(sortByName(SubSeq(fs, 1, Len(fs) - 1)), fs[Len(fs)])

\* The entry of a file without an error field.
NoError == ""

\* try { meta: parseMidi(data) } catch (e) { error: e }: the entry of one
\* file; parseMidi throws for a file that does not start with 'MThd'.
decodeFile(file) ==
  IF isMidi(file.data)
  THEN [name |-> file.name, meta |-> parseMidi(file.data), error |-> NoError]
  ELSE [name |-> file.name, meta |-> <<>>, error |-> "NotMidiFile"]

\* a || b on texts: b when a is undefined or empty.
orElse(a, b) == IF a # <<>> THEN a ELSE b

\* list.find(x => x.type === type)?.text, undefined written as the empty text.
textOfType(list, type) ==
  LET hits == SelectSeq(list, LAMBDA x : x.type = type)
  IN  IF hits = <<>> THEN <<>> ELSE hits[1].text

\* file.meta[0]?.meta.find(m => m.type === '曲名')?.text
midiSongName(file) ==
  IF file.error = NoError /\ Len(file.meta) >= 1
  THEN textOfType(file.meta[1].meta, "SongName")
  ELSE <<>>

\* file.meta[1]?.meta.find(m => m.type === 'XF')?.info, undefined written as
\* an info without fields.
xfInfoIn(file) ==
  LET hits == IF file.error = NoError /\ Len(file.meta) >= 2
              THEN SelectSeq(file.meta[2].meta, LAMBDA m : m.type = "XF")
              ELSE <<>>
  IN  IF hits = <<>> THEN [common |-> <<>>, perLanguage |-> <<>>]
      ELSE hits[1].info

\* xfSongName: the per-language title, or else the common one.
xfSongName(file) ==
  orElse(textOfType(xfInfoIn(file).perLanguage, "SongName"),
         textOfType(xfInfoIn(file).common, "SongName"))

\* The name of track 1 taken before the XF title.
songNameMidiFirst(file) == orElse(midiSongName(file), xfSongName(file))

\* const songName = xfSongName || midiSongName
songNameOf(file) == orElse(xfSongName(file), midiSongName(file))

\* The button of one file as the page reads it back: its value and its
\* data-song-name.
buttonOf(file) ==
  [value |-> attributeValue(htmlspecialchars(file.name)),
   songName |-> attributeValue(htmlspecialchars(songNameOf(file)))]

\* renderMidiList(fileTrackMetaLists): the buttons of #midi-list.
renderMidiList(lists) == [k \in 1..Len(lists) |-> buttonOf(lists[k])]

\* The dt/dd pairs of one category of an XF record, none when it is empty.
xfEntries(info, key) ==
  IF info[key] = <<>> THEN <<>>
  ELSE <<[dt |-> "XF(" \o key \o ")", text |-> <<>>,
          inner |-> [k \in 1..Len(info[key]) |->
                       [dt |-> info[key][k].type, dd |-> info[key][k].text]]]>>

\* The dt/dd pairs of one record.
metaEntries(meta) ==
  IF meta.type = "XF"
  THEN xfEntries(meta.info, "common") \o xfEntries(meta.info, "perLanguage")
  ELSE <<[dt |-> meta.type, text |-> meta.text, inner |-> <<>>]>>

\* The fieldset of one track: its legend 'Track N' and its dl.
trackBlock(track) ==
  [legend |-> track.track,
   dl |-> Concat([k \in 1..Len(track.meta) |-> metaEntries(track.meta[k])])]

\* A fieldset for every track, with or without records.
trackBlocksAll(trackList) ==
  [k \in 1..Len(trackList) |-> trackBlock(trackList[k])]

\* The loop of renderMetaView: a fieldset for each track with a record.
trackBlocks(trackList) ==
  LET kept == SelectSeq(trackList, LAMBDA t : Len(t.meta) # 0)
  IN  [k \in 1..Len(kept) |-> trackBlock(kept[k])]

\* renderMetaView(trackMetaList): the content of #meta-view.
renderMetaView(trackList) ==
  IF trackBlocks(trackList) = <<>>
  THEN [text |-> "NoMetaFound", blocks |-> <<>>]
  ELSE [text |-> "", blocks |-> trackBlocks(trackList)]

\* error.message || 'MIDIファイルの解析に失敗しました。'
messageOf(error) == IF error # "" THEN error ELSE "ParseFailed"

\* The most handlers waiting for their reads at a time.
MaxPending == 2

\* File names: 'a', 'b' and '&'.
NameA == <<97>>

NameB == <<98>>

NameAmp == <<38>>

\* The title '&A' as the name of track 1.
TextAmpA == TextEvent(3, <<38, 65>>)

\* File contents: no 'MThd'; a name in track 1 and an XFln title in track 2;
\* a name in track 1 alone; an XFln title in track 1 alone; a name in track 1
\* and XFhd fields in track 2; two tracks without records; a record in track
\* 2 alone; an XF payload without fields.
NotMidiBytes == [OneChunk(<<TextA>>, 0) EXCEPT ![1] = 0]

NameAndXFBytes == ManyChunks(<<TextA, XFlnEvent>>)

NameBytes == OneChunk(<<TextAmpA>>, 0)

XFFirstBytes == OneChunk(<<XFlnEvent>>, 0)

NameAndXFhdBytes == ManyChunks(<<TextA, XFhdEvent>>)

NoRecordBytes == ManyChunks(<<Tempo, <<>>>>)

SecondTrackBytes == ManyChunks(<<<<>>, TextKana>>)

BareXFBytes == OneChunk(<<XFhdBare>>, 0)

\* What the user can choose in the file dialog: nothing, or one of these
\* lists of files, in the order the dialog gives them.
Selections ==
  {<<>>,
   <<[name |-> NameB, data |-> NameAndXFBytes],
     [name |-> NameA, data |-> NotMidiBytes]>>,
   <<[name |-> NameA, data |-> NameBytes]>>,
   <<[name |-> NameA, data |-> XFFirstBytes],
     [name |-> NameAmp, data |-> NoRecordBytes]>>,
   <<[name |-> NameB, data |-> NameAndXFhdBytes],
     [name |-> NameA, data |-> SecondTrackBytes]>>,
   <<[name |-> NameA, data |-> BareXFBytes]>>}

\* The page loaded, with no call of parseMidi of its own under way.
InitPage ==
  /\ data = <<>>
  /\ twin = <<>>
  /\ pc = "page"
  /\ offset = 0
  /\ trackCount = 0
  /\ trackMetaList = <<>>
  /\ i = 0
  /\ end = 0
  /\ metaList = <<>>
  /\ runningStatus = 0
  /\ status = undefined
  /\ metaType = undefined
  /\ len = undefined
  /\ arg = [value |-> 0, offset |-> 0]
  /\ varLen = [value |-> 0, next |-> 0]
  /\ PageLoaded

\* The change handler when no file is chosen: the page is cleared.
ChangeNoFiles ==
  /\ files' = <<>>
  /\ songNameDiv' = <<>>
  /\ fileInputText' = "initialFileInputText"
  /\ midiList' = <<>>
  /\ active' = 0
  /\ metaView' = [text |-> "", blocks |-> <<>>]
  /\ UNCHANGED <<pending, fileTrackMetaLists, title>>
  /\ UNCHANGED parser

\* The change handler up to its await: the files are sorted and their reads
\* started.
ChangeFiles ==
  /\ Len(pending) < MaxPending
  /\ \E chosen \in Selections \ {<<>>} :
       /\ files' = chosen
       /\ fileInputText' = ToString(Len(chosen)) \o " files"
       /\ pending' = Append(pending, sortByName(chosen))
  /\ UNCHANGED <<fileTrackMetaLists, midiList, active, metaView, songNameDiv,
                 title>>
  /\ UNCHANGED parser

\* The change handler after its await, for the handler at position h of the
\* waiting ones: the files are decoded, stored and listed.
ReadsComplete(h) ==
  /\ h \in 1..Len(pending)
  /\ fileTrackMetaLists' =
       [k \in 1..Len(pending[h]) |-> decodeFile(pending[h][k])]
  /\ midiList' = renderMidiList(fileTrackMetaLists')
  /\ active' = 0
  /\ pending' = SubSeq(pending, 1, h - 1) \o SubSeq(pending, h + 1, Len(pending))
  /\ UNCHANGED <<files, metaView, songNameDiv, title, fileInputText>>
  /\ UNCHANGED parser

\* selectMidiFile(button) for the button at position k of the list.
selectMidiFile(k) ==
  LET button == midiList[k]
      shown  == orElse(button.songName, button.value)
      found  == SelectSeq(fileTrackMetaLists, LAMBDA f : f.name = button.value)
  IN  /\ active' = k
      /\ title' = shown
      /\ songNameDiv' = shown
      /\ metaView' =
           IF found = <<>> THEN metaView
           ELSE IF found[1].error # NoError
           THEN [text |-> messageOf(found[1].error), blocks |-> <<>>]
           ELSE renderMetaView(found[1].meta)
      /\ UNCHANGED <<files, pending, fileTrackMetaLists, midiList,
                     fileInputText>>
      /\ UNCHANGED parser

\* A click on a button of the list.
Click == \E k \in 1..Len(midiList) : selectMidiFile(k)

\* The position the arrow keys move to from the active button.
nextIndex(key) ==
  IF active = 0 THEN 1
  ELSE IF key = "ArrowDown" THEN (active % Len(midiList)) + 1
  ELSE ((active - 2 + Len(midiList)) % Len(midiList)) + 1

\* ArrowUp or ArrowDown on the list.
KeyDown ==
  /\ Len(midiList) # 0
  /\ \E key \in {"ArrowUp", "ArrowDown"} : selectMidiFile(nextIndex(key))

NextPage ==
  \/ ChangeNoFiles
  \/ ChangeFiles
  \/ \E h \in 1..Len(pending) : ReadsComplete(h)
  \/ Click
  \/ KeyDown

SpecPage == InitPage /\ [][NextPage]_vars

\* ------------------------------------------------------------------------
\* C11: the list has one entry for each chunk discovered, in the order of
\* discovery: each chunk entered is left by one push of its list, empty or
\* not, at the end of trackMetaList, no other step changes the list, and the
\* k-th entry has track = k.
C11_OneEntryPerChunk ==
  /\ [](\A k \in 1..Len(trackMetaList) : trackMetaList[k].track = k)
  /\ [][/\ (pc = "scan" /\ pc' = "walk") => Len(trackMetaList) = trackCount
        /\ (pc \in {"walk", "break"} /\ pc' = "scan") =>
             /\ Len(trackMetaList') = Len(trackMetaList) + 1
             /\ SubSeq(trackMetaList', 1, Len(trackMetaList)) = trackMetaList
             /\ trackMetaList'[Len(trackMetaList')].meta = metaList
             /\ trackCount' = Len(trackMetaList')
        /\ (pc # "start" /\ ~(pc \in {"walk", "break"} /\ pc' = "scan")) =>
             trackMetaList' = trackMetaList]_vars

\* A parse that returned two tracks, the first without records.
C11_Witness ==
  /\ pc = "done"
  /\ Len(trackMetaList) = 2
  /\ trackMetaList[1].meta = <<>>
  /\ trackMetaList[2].meta # <<>>

\* ------------------------------------------------------------------------
\* C12

\* The records of every track of a decoded file, in order.
RecordsOf(file) == Concat([k \in 1..Len(file.meta) |-> file.meta[k].meta])

\* The texts of the title fields ('曲名') of one category in the XF records
\* of a list of records.
XFTitles(records, key) ==
  {records[r].info[key][f].text :
     <<r, f>> \in {<<r, f>> \in (1..Len(records)) \X (1..13) :
                     /\ records[r].type = "XF"
                     /\ f <= Len(records[r].info[key])
                     /\ records[r].info[key][f].type = "SongName"}}

\* The texts of the records of track 1 named '曲名'.
FirstTrackNames(file) ==
  IF Len(file.meta) = 0 THEN {}
  ELSE {file.meta[1].meta[r].text :
          r \in {r \in 1..Len(file.meta[1].meta) :
                   file.meta[1].meta[r].type = "SongName"}}

\* The song names the claim allows for a file: a per-language XF title from
\* any track, else a common XF title, else a name of track 1, else none.
TitlesOfAnyTrack(file) ==
  IF XFTitles(RecordsOf(file), "perLanguage") # {}
  THEN XFTitles(RecordsOf(file), "perLanguage")
  ELSE IF XFTitles(RecordsOf(file), "common") # {}
  THEN XFTitles(RecordsOf(file), "common")
  ELSE IF FirstTrackNames(file) # {} THEN FirstTrackNames(file)
  ELSE {<<>>}

\* The files listed are the files stored, in the same order.
ListedAsStored ==
  /\ Len(midiList) = Len(fileTrackMetaLists)
  /\ \A k \in 1..Len(midiList) : midiList[k].value = fileTrackMetaLists[k].name

\* C12 as stated: the song name listed for a file is the per-language title
\* of an XF record of any track if there is one, else a common XF title,
\* else the name of track 1, else none.
C12_TitleOfAnyTrack ==
  (midiList # <<>> /\ ListedAsStored) =>
    \A k \in 1..Len(midiList) :
      midiList[k].songName \in TitlesOfAnyTrack(fileTrackMetaLists[k])

\* The first XF record of track 2 of a file, as a list of at most one record.
SecondTrackXF(file) ==
  IF Len(file.meta) < 2 THEN <<>>
  ELSE LET xf == SelectSeq(file.meta[2].meta, LAMBDA m : m.type = "XF")
       IN  IF xf = <<>> THEN <<>> ELSE <<xf[1]>>

\* The first of a list of texts, the empty text when there is none.
FirstText(items) == IF items = <<>> THEN <<>> ELSE items[1].text

\* C12: the song name listed for a file is the first per-language title
\* field of the first XF record of track 2 if that record has one, else the
\* first common title field of that record if it has one, else the text of
\* the first '曲名' record of track 1, else none; XF records of other tracks
\* and later XF records of track 2 are not looked at.
C12_TitleOfSecondTrack ==
  (midiList # <<>>) =>
    /\ ListedAsStored
    /\ \A k \in 1..Len(midiList) :
         LET file  == fileTrackMetaLists[k]
             xf    == SecondTrackXF(file)
             per   == IF xf = <<>> THEN <<>>
                      ELSE SelectSeq(xf[1].info.perLanguage,
                                     LAMBDA x : x.type = "SongName")
             com   == IF xf = <<>> THEN <<>>
                      ELSE SelectSeq(xf[1].info.common,
                                     LAMBDA x : x.type = "SongName")
             names == IF Len(file.meta) = 0 THEN <<>>
                      ELSE SelectSeq(file.meta[1].meta,
                                     LAMBDA m : m.type = "SongName")
         IN  midiList[k].songName =
               IF per # <<>> THEN FirstText(per)
               ELSE IF com # <<>> THEN FirstText(com)
               ELSE FirstText(names)

\* A file with a name in track 1 and an XF title in track 2 is listed under
\* its XF title.
C12_Witness ==
  \E k \in 1..Len(midiList) :
    /\ k <= Len(fileTrackMetaLists)
    /\ FirstTrackNames(fileTrackMetaLists[k]) # {}
    /\ SecondTrackXF(fileTrackMetaLists[k]) # <<>>
    /\ midiList[k].songName \in
         XFTitles(SecondTrackXF(fileTrackMetaLists[k]), "perLanguage")
    /\ midiList[k].songName \notin FirstTrackNames(fileTrackMetaLists[k])

\* ------------------------------------------------------------------------
\* C13

\* The tracks of a decoded file that have a record.
TracksWithRecords(file) ==
  {k \in 1..Len(file.meta) : Len(file.meta[k].meta) > 0}

\* C13: a step that selects a listed file leaves #meta-view in one of three
\* states: the message of the decode error of that file; 'no metadata found'
\* when the decode succeeded and no track has a record; else one block for
\* each track with a record, in track order, and none for a track without.
C13_ThreeViews ==
  [][(active' # 0 /\ pending' = pending) =>
       /\ \E k \in 1..Len(fileTrackMetaLists) :
            fileTrackMetaLists[k].name = midiList[active'].value
       /\ LET file == fileTrackMetaLists[
                        CHOOSE k \in 1..Len(fileTrackMetaLists) :
                          fileTrackMetaLists[k].name = midiList[active'].value]
              blocks == metaView'.blocks
          IN  /\ file.error # NoError =>
                   metaView' = [text |-> file.error, blocks |-> <<>>]
              /\ (file.error = NoError /\ TracksWithRecords(file) = {}) =>
                   metaView' = [text |-> "NoMetaFound", blocks |-> <<>>]
              /\ (file.error = NoError /\ TracksWithRecords(file) # {}) =>
                   /\ metaView'.text = ""
                   /\ Len(blocks) = Cardinality(TracksWithRecords(file))
                   /\ {blocks[b].legend : b \in 1..Len(blocks)} =
                        {file.meta[k].track : k \in TracksWithRecords(file)}
                   /\ \A b \in 1..(Len(blocks) - 1) :
                        blocks[b].legend < blocks[b + 1].legend]_vars

\* The file selected has no record in track 1 and one in track 2: the view
\* is the block of track 2 alone.
C13_Witness ==
  /\ active # 0
  /\ Len(fileTrackMetaLists) >= active
  /\ fileTrackMetaLists[active].error = NoError
  /\ TracksWithRecords(fileTrackMetaLists[active]) = {2}
  /\ metaView.text = ""
  /\ Len(metaView.blocks) = 1
  /\ metaView.blocks[1].legend = 2

\* ------------------------------------------------------------------------
\* C14: when a chunk whose four length bytes b4..b7 lie in the file is
\* entered at offset o, the length used is the unsigned value
\* b4 * 2^24 + b5 * 2^16 + b6 * 2^8 + b7, and the end of the body is o + 8
\* plus that value, never less than o + 8.
C14_UnsignedLength ==
  [][(pc = "scan" /\ pc' = "walk" /\ offset + 8 <= Len(data)) =>
       /\ i' = offset + 8
       /\ end' >= offset + 8
       /\ (end' - i') \div 16777216 = At(data, offset + 4)
       /\ (end' - i') % 16777216 =
            At(data, offset + 5) * 65536 + At(data, offset + 6) * 256
              + At(data, offset + 7)]_vars

\* ------------------------------------------------------------------------
\* C15

\* The length field of the meta event that starts at cursor k, read after
\* the delta time, the status byte when it is written, and the type byte.
MetaLength(d, k) ==
  LET afterDelta == readVarLen(d, k).next
      typeAt     == IF At(d, afterDelta) = 255 THEN afterDelta + 1 ELSE afterDelta
  IN  readVarLen(d, typeAt + 1)

\* C15: an iteration that handles a meta event of a type other than 0x01,
\* 0x02, 0x03, 0x05, 0x06, 0x07 leaves the list as it was and moves the
\* cursor by the declared length from the end of the length field, whatever
\* the payload is; the loop goes on unless the type is 0x2f and the length 0.
C15_UnrecognizedSkipped ==
  [][(pc = "walk" /\ pc' \in {"walk", "break"} /\ status' = 255
        /\ metaType' \notin {1, 2, 3, 5, 6, 7}) =>
       /\ metaList' = metaList
       /\ len' = MetaLength(data, i).value
       /\ i' = MetaLength(data, i).next + len'
       /\ (metaType' # 47 \/ len' # 0) => pc' = "walk"]_vars

\* The body starts with a meta event of type 0x2f and length 1, the loop
\* went on, and the event just handled has type 0x7f and a payload starting
\* with 'XFhd': the list is still empty.
C15_Witness ==
  /\ pc = "walk"
  /\ Len(data) >= HeaderSize + 8 + Len(EndOfTrackLong)
  /\ SubSeq(data, HeaderSize + 9, HeaderSize + 8 + Len(EndOfTrackLong))
       = EndOfTrackLong
  /\ status = 255
  /\ metaType = 127
  /\ len > 0
  /\ StartsWithXF(Slice(data, i - len, i))
  /\ metaList = <<>>

\* ------------------------------------------------------------------------
\* C16

\* The plain text records of a list of records.
PlainRecords(ml) == SelectSeq(ml, LAMBDA m : m.type # "XF")

\* C16: every plain text record, of the chunk being walked and of the tracks
\* pushed, has a text that is not empty; and an iteration that handles a
\* recognized text meta event of length 0 leaves the list as it was and does
\* not leave the loop.
C16_NoEmptyText ==
  /\ [](/\ \A r \in 1..Len(PlainRecords(metaList)) :
              PlainRecords(metaList)[r].text # <<>>
        /\ \A t \in 1..Len(trackMetaList) :
              \A r \in 1..Len(PlainRecords(trackMetaList[t].meta)) :
                PlainRecords(trackMetaList[t].meta)[r].text # <<>>)
  /\ [][(pc = "walk" /\ pc' \in {"walk", "break"} /\ status' = 255
           /\ metaType' \in {1, 2, 3, 5, 6, 7} /\ len' = 0) =>
          /\ metaList' = metaList
          /\ pc' = "walk"]_vars

\* A recognized text meta event of length 0 was just handled after a record
\* was made, and there is more of the chunk to walk.
C16_Witness ==
  /\ pc = "walk"
  /\ status = 255
  /\ metaType = 3
  /\ len = 0
  /\ Len(metaList) = 1
  /\ i < end
  /\ i < Len(data)

\* ------------------------------------------------------------------------
\* C17

\* The positions of the split payload whose field is kept: after the
\* prefix, not empty, and with a label at the position in the table.
KeptPositions(pieces, table) ==
  {p \in 1..Len(pieces) : p > 1 /\ pieces[p] # <<>> /\ p <= Len(table)}

\* app is the list of the kept fields of the payload, each under the label
\* of its position, in the order of their positions.
IsKeptFields(app, pieces, table) ==
  /\ Len(app) = Cardinality(KeptPositions(pieces, table))
  /\ \A p \in KeptPositions(pieces, table) :
       app[Cardinality({q \in KeptPositions(pieces, table) : q <= p})]
         = [type |-> table[p], text |-> pieces[p]]

\* C17: an iteration that handles an XF payload when the last record is an
\* XF record changes that record only, and of it only the category of the
\* payload, which keeps its fields and gets after them the fields of the
\* payload that are not empty and have a label at their position, in the
\* order of the payload.
C17_MergeAppends ==
  [][(pc = "walk" /\ pc' \in {"walk", "break"} /\ status' = 255
        /\ metaType' \in {1, 2, 3, 5, 6, 7}
        /\ StartsWithXF(Slice(data, i' - len', i'))
        /\ lastIsXF(metaList)) =>
       LET payload == Slice(data, i' - len', i')
           pieces  == Split(decodeShiftJIS(payload))
           isHd    == SubSeq(payload, 1, 4) = XFhd
           table   == IF isHd THEN XF_INFO_TYPES.XFhd ELSE XF_INFO_TYPES.XFln
           n       == Len(metaList)
           old     == metaList[n].info
           new     == metaList'[n].info
           before  == IF isHd THEN old.common ELSE old.perLanguage
           after   == IF isHd THEN new.common ELSE new.perLanguage
       IN  /\ Len(metaList') = n
           /\ SubSeq(metaList', 1, n - 1) = SubSeq(metaList, 1, n - 1)
           /\ metaList'[n].type = "XF"
           /\ IF isHd THEN new.perLanguage = old.perLanguage
              ELSE new.common = old.common
           /\ Len(after) >= Len(before)
           /\ SubSeq(after, 1, Len(before)) = before
           /\ IsKeptFields(SubSeq(after, Len(before) + 1, Len(after)),
                           pieces, table)]_vars

\* 'XFln::T' was just merged into an XF record that had per-language fields
\* and follows a text record: its one field that is not empty was appended.
C17_Witness ==
  /\ pc = "walk"
  /\ status = 255
  /\ len > 0
  /\ Slice(data, i - len, i) = XFln \o <<58, 58, 84>>
  /\ Len(metaList) = 2
  /\ metaList[1].type # "XF"
  /\ metaList[2].type = "XF"
  /\ Len(metaList[2].info.perLanguage) = 2
  /\ metaList[2].info.perLanguage[2] = [type |-> "SongName", text |-> <<84>>]

\* ------------------------------------------------------------------------
\* C18: an iteration started inside the body of a chunk reads the type and
\* the length of a meta event, and the length of a system-exclusive event,
\* before the end of the body, and changes the list only by a payload that
\* ends at or before the end of the body: no record is made of a byte at or
\* after the end of the body.
C18_InsideBody ==
  [][(pc = "walk" /\ pc' \in {"walk", "break"}) =>
       /\ (status' \in {255, 240, 247}) => i' - len' <= end
       /\ (metaList' # metaList) => i' <= end]_vars

\* ------------------------------------------------------------------------
\* C19

\* The XF records of a list of records.
XFOnly(ml) == SelectSeq(ml, LAMBDA m : m.type = "XF")

\* Every XF record of the list has a field in one of its categories.
HasFields(ml) ==
  \A r \in 1..Len(XFOnly(ml)) :
    XFOnly(ml)[r].info.common # <<>> \/ XFOnly(ml)[r].info.perLanguage # <<>>

\* C19: every XF record, of the chunk being walked and of the tracks pushed,
\* has at least one field in its common or its per-language category, so an
\* XF payload without a kept field makes no record.
C19_XFHasField ==
  /\ HasFields(metaList)
  /\ \A t \in 1..Len(trackMetaList) : HasFields(trackMetaList[t].meta)

\* ------------------------------------------------------------------------
\* C20: the buttons listed are always those of the entries stored in
\* fileTrackMetaLists, and once no read is pending the entries stored are
\* those of the files of the last change event, in name order: none when it
\* had no file.
C20_LastChangeWins ==
  /\ midiList = renderMidiList(fileTrackMetaLists)
  /\ pending = <<>> =>
       fileTrackMetaLists =
         [k \in 1..Len(files) |-> decodeFile(sortByName(files)[k])]

============================================================================
